---- MODULE Spec2Model ----
(***************************************************************************)
(* Safe-Miles: the school-bus optimization core.                           *)
(*                                                                         *)
(*   Spec        the pipeline of optimizer.py from the clustered riders    *)
(*               (the output of enforce_max_distance) through              *)
(*               create_stop_df, split_large_stops, the fleet-size search  *)
(*               of solve_vrp_with_fleet_limit, the pipeline's filter of   *)
(*               empty buses and generate_route_details.                   *)
(*   SpecSplit   split_large_stops applied to arbitrary stop lists.        *)
(*   SpecMatrix  build_distance_matrix applied to arbitrary road graphs.   *)
(*   SpecSingleRider  the pipeline on one rider with the default capacity  *)
(*               and fleet.                                                *)
(*   SpecClassify  the rider / walker classification of optimizer.py.      *)
(*   SpecCluster enforce_max_distance and the centroids of create_stop_df. *)
(*   SpecRuns    the files two concurrent runs of the pipeline write.      *)
(*   SpecDb      save_run, publish_run and delete_run of main.py.          *)
(*   SpecSearch  the fleet-size search on four stops of demand 1.          *)
(*   SpecClusterPass  enforce_max_distance on four riders.                 *)
(*                                                                         *)
(* The OR-tools solver is a library: SolveWithParameters is modelled by    *)
(* what the routing model built in routing.py lines 51-88 admits, every    *)
(* solution that visits each non-depot node exactly once and respects the  *)
(* capacity dimension, or no solution at all (the heuristic and the 30 s   *)
(* limit may fail).  Arc costs only rank the admitted solutions, so the    *)
(* search of Spec does not read the distance matrix.                       *)
(***************************************************************************)
EXTENDS Integers, Sequences, FiniteSets, TLC

VARIABLES
    pc,                    \* position in the pipeline / function
    df_bus,                \* riders in roster order: df_bus[s] = assigned_stop_id of StudentID s
    bus_capacity,          \* bus_capacity (optimizer.py) / vehicle_capacities[0] (routing.py)
    num_bus,               \* num_bus (optimizer.py) / max_buses (routing.py)
    stop_df,               \* the stop list, a sequence of rows
    demands,               \* stop_df['num_students'].tolist()
    depot_index,           \* 0-based position of the school row
    min_buses,
    theoretical_min_buses,
    warned,                \* the "Need at least ... buses" warning was printed
    num_vehicles,          \* loop variable of the fleet-size search
    attempts,              \* solver attempts made so far, in order
    best_routes,
    best_num_buses,
    routes,                \* routes returned by solve_vrp_with_fleet_limit, then filtered
    vrp_metrics,
    bus_loads,             \* pipeline's loads of the filtered routes
    G,                     \* road graph: [nodes, edges], edges directed pairs <<u, v>>
    stop_nodes,            \* stop_df['graph_node'].tolist()
    dist_matrix

pipelineVars == <<df_bus, num_bus, demands, depot_index, min_buses,
                  theoretical_min_buses, warned, num_vehicles, attempts,
                  best_routes, best_num_buses, routes, vrp_metrics, bus_loads>>

graphVars == <<G, stop_nodes, dist_matrix>>

\* optimizer.py lines 35-47: the rider / walker classification
VARIABLES
    df_roster,             \* the frame df: df_roster[s] = distance_to_school_km of student s
    safe_walk_miles,
    needs_bus,             \* the column df['needs_bus']
    df_bus_index,          \* the students of df[df['needs_bus']]
    df_walkers             \* the students of df[~df['needs_bus']]

classifyVars == <<df_roster, safe_walk_miles, needs_bus, df_bus_index, df_walkers>>

\* clustering.py: enforce_max_distance and the centroids of create_stop_df
VARIABLES
    coords,                \* coords[s] = position of rider s
    new_df,                \* new_df[s] = assigned_stop_id of rider s
    max_distance_km,
    enforce_calls,         \* calls of enforce_max_distance made so far
    stop_centers           \* create_stop_df: centroid of every stop

clusterVars == <<coords, new_df, max_distance_km, enforce_calls, stop_centers>>

\* optimizer.py / map.py / clustering.py: the artefacts of concurrent runs
VARIABLES
    run_pc,                \* run_pc[r] = position of run r in the pipeline
    clock,                 \* datetime.now(), in whole seconds
    files,                 \* the assets directory: rows [path, writer]
    timestamp,             \* timestamp[r] = the strftime value run r named its folder by
    run_routes,            \* run_routes[r] = len(routes) of run r
    map_index              \* map_index[r] = the loop variable i of run r

runVars == <<run_pc, clock, files, timestamp, run_routes, map_index>>

\* main.py / db_models.py: the optimization_runs table and its dependants
VARIABLES
    optimization_runs,     \* rows [run_id, is_published]
    routes_table,          \* rows [route_id, run_id]
    stops_table,           \* rows [stop_id, route_id]
    student_assignments,   \* rows [student_id, run_id, route_id, stop_id]
    next_id,               \* the autoincrement counters [run, route, stop]
    response               \* the response of the last request

dbVars == <<optimization_runs, routes_table, stops_table, student_assignments,
            next_id, response>>

\* optimizer.py line 152: the value generate_route_details returns
VARIABLES
    route_details_out      \* results['route_details']

reportVars == <<route_details_out>>

extVars == <<classifyVars, clusterVars, runVars, dbVars, reportVars>>

vars == <<pc, df_bus, bus_capacity, num_bus, stop_df, demands, depot_index,
          min_buses, theoretical_min_buses, warned, num_vehicles, attempts,
          best_routes, best_num_buses, routes, vrp_metrics, bus_loads,
          G, stop_nodes, dist_matrix, extVars>>

(***************************************************************************)
(* Bounds of the model.                                                    *)
(***************************************************************************)
MaxRiders == 3

MaxCapacity == 3

MaxBuses == 3

MaxSplitDemand == 100

MaxSplitCapacity == 40

MaxSecondDemand == 2

MaxNodes == 3

MaxClusterRiders == 3

MaxCoord == 5

MaxInitialClusters == 2

MaxDistanceKm == 2

MaxEnforceCalls == 2

MaxStudents == 3

MaxSafeWalkTenths == 27

MaxRunRoutes == 2

MaxClock == 2

MaxSavedRuns == 2

(***************************************************************************)
(* Helpers.                                                                *)
(***************************************************************************)
RECURSIVE SumSeq(_)
SumSeq(s) == IF s = <<>> THEN 0 ELSE Head(s) + SumSeq(Tail(s))

RECURSIVE Flatten(_)
Flatten(ss) == IF ss = <<>> THEN <<>> ELSE Head(ss) \o Flatten(Tail(ss))

Range(s) == {s[i] : i \in DOMAIN s}

Max(a, b) == IF a >= b THEN a ELSE b

\* math.ceil(a / b) for a >= 0, b > 0
CeilDiv(a, b) == (a + b - 1) \div b

(***************************************************************************)
(* clustering.py: create_stop_df                                           *)
(***************************************************************************)
\* df['assigned_stop_id'].unique(): the distinct values in order of first appearance
RECURSIVE Unique(_)
Unique(s) ==
    IF s = <<>> THEN <<>>
    ELSE <<Head(s)>> \o SelectSeq(Unique(Tail(s)), LAMBDA x : x # Head(s))

\* students_at_stop['StudentID'].tolist(): the StudentIDs of the rows assigned to id
RECURSIVE StudentIdsAt(_, _, _)
StudentIdsAt(df, id, i) ==
    IF i > Len(df) THEN <<>>
    ELSE (IF df[i] = id THEN <<i>> ELSE <<>>) \o StudentIdsAt(df, id, i + 1)

\* stop_id is an int for a cluster, 'school' for the depot and '<id>_part<k>' for a
\* sibling: school / cluster / part (0: no suffix) keep the three apart.
\* line 73 counting the rows of df instead of those of the stop
StopRowCountsAll(df, id) ==
    LET ids == StudentIdsAt(df, id, 1) IN
    [stop_id |-> [school |-> FALSE, cluster |-> id, part |-> 0],
     original_stop_id |-> id,
     num_students |-> Len(df),
     student_ids |-> ids]

\* lines 57-75: one stop per cluster
StopRow(df, id) ==
    LET ids == StudentIdsAt(df, id, 1) IN
    [stop_id |-> [school |-> FALSE, cluster |-> id, part |-> 0],
     original_stop_id |-> id,
     num_students |-> Len(ids),
     student_ids |-> ids]

SchoolStopId == [school |-> TRUE, cluster |-> 0, part |-> 0]

SchoolRow ==
    [stop_id |-> SchoolStopId,
     original_stop_id |-> -1,
     num_students |-> 0,
     student_ids |-> <<>>]

\* line 89 with the school row concatenated after the stops
CreateStopDfRowsSchoolLast(df) ==
    LET stop_ids == Unique(df) IN
    [k \in 1..Len(stop_ids) |-> StopRow(df, stop_ids[k])] \o <<SchoolRow>>

CreateStopDfRows(df) ==
    LET stop_ids == Unique(df) IN
    <<SchoolRow>> \o [k \in 1..Len(stop_ids) |-> StopRow(df, stop_ids[k])]

(***************************************************************************)
(* routing.py: split_large_stops                                           *)
(***************************************************************************)
\* line 173 with // in place of math.ceil
NumSubStopsFloor(demand, capacity) == demand \div capacity

\* line 173: num_sub_stops = math.ceil(demand / bus_capacity)
NumSubStops(demand, capacity) == CeilDiv(demand, capacity)

\* line 174 with // in place of math.ceil
StudentsPerSubStopFloor(demand, num_sub_stops) == demand \div num_sub_stops

\* line 174: students_per_sub_stop = math.ceil(demand / num_sub_stops)
StudentsPerSubStop(demand, num_sub_stops) == CeilDiv(demand, num_sub_stops)

\* lines 179-182 without the branch for the last sibling
SubStopDemandNoRemainder(demand, num_sub_stops, students_per_sub_stop, i) ==
    students_per_sub_stop

\* lines 179-182: demand of sibling i (0-based) of num_sub_stops
SubStopDemand(demand, num_sub_stops, students_per_sub_stop, i) ==
    IF i = num_sub_stops - 1
    THEN demand - students_per_sub_stop * (num_sub_stops - 1)
    ELSE students_per_sub_stop

\* the rows new_stops receives for one row of stop_df
SplitRow(row, capacity) ==
    LET demand == row.num_students IN
    IF demand <= capacity THEN <<row>>
    ELSE LET num_sub_stops == NumSubStops(demand, capacity)
             students_per_sub_stop == StudentsPerSubStop(demand, num_sub_stops)
         IN [k \in 1..num_sub_stops |->
                [row EXCEPT !.stop_id = [@ EXCEPT !.part = k],
                            !.num_students =
                                SubStopDemand(demand, num_sub_stops,
                                              students_per_sub_stop, k - 1)]]

SplitLargeStopsRows(df, capacity) ==
    Flatten([k \in 1..Len(df) |-> SplitRow(df[k], capacity)])

(***************************************************************************)
(* routing.py: solve_vrp_with_fleet_limit                                  *)
(***************************************************************************)
\* demands[i] for a 0-based node index i
DemandAt(dem, i) == dem[i + 1]

\* sum(demands[i] for i in route if i != depot_index)
RouteLoad(dem, depot, route) ==
    SumSeq([k \in 1..Len(route) |->
               IF route[k] # depot THEN DemandAt(dem, route[k]) ELSE 0])

RECURSIVE Perms(_)
Perms(S) ==
    IF S = {} THEN {<<>>}
    ELSE UNION {{<<x>> \o p : p \in Perms(S \ {x})} : x \in S}

RECURSIVE SumOver(_, _)
SumOver(dem, S) ==
    IF S = {} THEN 0
    ELSE LET x == CHOOSE y \in S : TRUE IN DemandAt(dem, x) + SumOver(dem, S \ {x})

\* the routing model without its capacity dimension
CapacityIgnored(dem, nodes, capacity) == TRUE

\* AddDimensionWithVehicleCapacity(demand_callback_index, 0, capacities, True,
\* 'Capacity'): the load a vehicle accumulates never exceeds its capacity
CapacityOk(dem, nodes, capacity) == SumOver(dem, nodes) <= capacity

\* the routes the extraction loop (lines 95-106) reads for vehicles v..nv when the
\* solver served node n with vehicle a[n]: depot, the vehicle's nodes in some
\* order, depot
RECURSIVE VehicleRoutes(_, _, _, _)
VehicleRoutes(a, depot, v, nv) ==
    IF v > nv THEN {<<>>}
    ELSE {<<<<depot>> \o p \o <<depot>>>> \o rest :
             p \in Perms({n \in DOMAIN a : a[n] = v}),
             rest \in VehicleRoutes(a, depot, v + 1, nv)}

\* RoutingIndexManager(num_stops, num_vehicles, depot_index) + RoutingModel: every
\* node but the depot is served by exactly one vehicle, within the capacity
SolverSolutions(dem, capacity, depot, nv) ==
    LET nodes == {i \in 0..(Len(dem) - 1) : i # depot} IN
    UNION {VehicleRoutes(a, depot, 1, nv) :
             a \in {b \in [nodes -> 1..nv] :
                      \A v \in 1..nv :
                          CapacityOk(dem, {n \in nodes : b[n] = v}, capacity)}}

\* line 110 with route_load > 1
ActiveRoutesAboveOne(dem, depot, solution) ==
    SelectSeq(solution, LAMBDA r : RouteLoad(dem, depot, r) > 1)

\* lines 95-113 without the test of line 110
ActiveRoutesAll(dem, depot, solution) == solution

\* lines 95-113: only routes that serve students are kept
ActiveRoutes(dem, depot, solution) ==
    SelectSeq(solution, LAMBDA r : RouteLoad(dem, depot, r) > 0)

\* line 32 with floor division in place of math.ceil
TheoreticalMinBusesFloor(total_demand, capacity) == total_demand \div capacity

TheoreticalMinBuses(total_demand, capacity) == CeilDiv(total_demand, capacity)

\* range(max(theoretical_min_buses, min_buses), max_buses + 1) starts here
FirstFleetSize(tmin, minb) == Max(tmin, minb)

\* line 119: keeps solution with fewest buses
KeepsSolution(buses_used, best) == buses_used < best

\* line 125 without the margin of 2
NearOptimalExact(buses_used, tmin) == buses_used <= tmin

\* line 125: stop early
NearOptimal(buses_used, tmin) == buses_used <= tmin + 2

\* line 135 reporting the requested fleet as the used one
MetricsRequestedAsUsed(dem, capacity, depot, max_buses, best_rts, best_n, tmin) ==
    [buses_requested |-> max_buses,
     buses_used |-> max_buses,
     theoretical_minimum |-> tmin,
     total_students |-> SumSeq(dem),
     bus_loads |-> <<>>,
     overloaded_buses |-> {},
     underutilized_buses |-> {},
     status |-> "good"]

\* lines 133-148
Metrics(dem, capacity, depot, max_buses, best_rts, best_n, tmin) ==
    LET loads == [k \in 1..Len(best_rts) |-> RouteLoad(dem, depot, best_rts[k])] IN
    [buses_requested |-> max_buses,
     buses_used |-> best_n,
     theoretical_minimum |-> tmin,
     total_students |-> SumSeq(dem),
     bus_loads |-> loads,
     overloaded_buses |-> {k \in 1..Len(loads) : loads[k] > capacity},
     underutilized_buses |-> {k \in 1..Len(loads) : 2 * loads[k] < capacity},
     status |-> IF best_n = tmin THEN "optimal" ELSE "good"]

\* line 161 returning the requested fleet size next to the empty route list
RequestedOnlyMetrics == [buses_requested |-> 0]

\* return [], {}
EmptyMetrics == <<>>

(***************************************************************************)
(* routing.py: build_distance_matrix                                       *)
(*                                                                         *)
(* The road graph is G = [nodes, edges], edges a set of directed pairs     *)
(* <<u, v>>.  Lengths are floats in the code: the model counts them in     *)
(* quarter metres, so that astype(int) has something to cut off.           *)
(***************************************************************************)
\* the 'length' attribute of edge <<u, v>>, in quarter metres
EdgeLength(u, v) == u + v

\* the float inf, which no length equals
PosInf == -1

SentinelDistance == 1000000

MinOf(S) == CHOOSE x \in S : \A y \in S : x <= y

\* the length of a shortest path from source to v of at most k edges, PosInf if
\* there is none
RECURSIVE HopDistance(_, _, _, _)
HopDistance(graph, source, v, k) ==
    IF k = 0 THEN (IF v = source THEN 0 ELSE PosInf)
    ELSE LET via == {<<w, HopDistance(graph, source, w, k - 1)>> :
                        w \in {x \in graph.nodes : <<x, v>> \in graph.edges}}
             cand == {p[2] + EdgeLength(p[1], v) : p \in {q \in via : q[2] # PosInf}}
                        \cup ({HopDistance(graph, source, v, k - 1)} \ {PosInf})
         IN IF cand = {} THEN PosInf ELSE MinOf(cand)

\* nx.single_source_dijkstra_path_length(G, source, weight='length'): a dict whose
\* keys are the nodes reachable from source
DijkstraPathLength(graph, source) ==
    LET hops == Cardinality(graph.nodes) - 1
        reached == {v \in graph.nodes : HopDistance(graph, source, v, hops) # PosInf}
    IN [v \in reached |-> HopDistance(graph, source, v, hops)]

\* lines 191-201: np.zeros, then one row per source; a target that is not in
\* distances, or a source Dijkstra raises for, leaves the zero
RawEntry(graph, source, target) ==
    IF source \notin graph.nodes THEN 0
    ELSE LET distances == DijkstraPathLength(graph, source)
         IN IF target \in DOMAIN distances THEN distances[target] ELSE 0

\* line 203 taking the zeros np.zeros left for missing values as well
NanToNumZeroMissing(x) == IF x = PosInf \/ x = 0 THEN 4 * SentinelDistance ELSE x

\* line 203: np.nan_to_num(dist_matrix, nan=1e6, posinf=1e6, neginf=1e6)
NanToNum(x) == IF x = PosInf THEN 4 * SentinelDistance ELSE x

\* line 204: astype(int) cuts a non-negative float down to its integer part
AsTypeInt(quarter_metres) == quarter_metres \div 4

BuildDistanceMatrixOf(graph, nodes) ==
    [i \in 1..Len(nodes) |->
        [j \in 1..Len(nodes) |->
            AsTypeInt(NanToNum(RawEntry(graph, nodes[i], nodes[j])))]]

\* optimizer.py line 82: dist_matrix_km = dist_matrix / 1000
MetresPerKm == 1000

\* routing.py lines 54-55 on the dist_matrix_km of optimizer.py lines 82 and 94:
\* int(dist_matrix_km[from_node][to_node]), nodes counted from 0
DistanceCallback(matrix, from_node, to_node) ==
    matrix[from_node + 1][to_node + 1] \div MetresPerKm

(***************************************************************************)
(* info.py: generate_route_details.  A stop of the detail record carries   *)
(* the latitude and longitude of its row of stop_df; the rows of one       *)
(* cluster (a stop and its split siblings) share them, so location holds   *)
(* the row's original_stop_id.  Distances and map paths are left out.      *)
(***************************************************************************)
\* lines 93-110: the stored ids that df_bus has a row for
StudentsByStoredIds(row, df) ==
    SelectSeq(row.student_ids, LAMBDA s : s \in 1..Len(df))

\* lines 115-128: the rows of df_bus whose assigned_stop_id is the stop's
StudentsByStopId(row, df) == StudentIdsAt(df, row.original_stop_id, 1)

\* lines 90-130: students_list of one stop
StudentsList(row, df) ==
    IF row.student_ids # <<>> THEN StudentsByStoredIds(row, df)
    ELSE StudentsByStopId(row, df)

\* lines 81-139 without the continue of lines 83-84
StopsDataWithDepot(stops, route, df) ==
    [n \in 1..Len(route) |->
        [location |-> stops[route[n] + 1].original_stop_id,
         sequence_number |-> n,
         students |-> StudentsList(stops[route[n] + 1], df)]]

\* lines 78-139: stops_data of one route
StopsData(stops, route, df) ==
    LET visited == SelectSeq(route,
                       LAMBDA i : stops[i + 1].stop_id # SchoolStopId)
    IN [n \in 1..Len(visited) |->
           [location |-> stops[visited[n] + 1].original_stop_id,
            sequence_number |-> n,
            students |-> StudentsList(stops[visited[n] + 1], df)]]

\* lines 66-155: one record per route of more than one node
GenerateRouteDetailsOf(stops, rts, df) ==
    LET listed == SelectSeq([k \in 1..Len(rts) |-> k],
                      LAMBDA k : Len(rts[k]) > 1)
    IN [j \in 1..Len(listed) |->
           LET stops_data == StopsData(stops, rts[listed[j]], df)
           IN [bus_number |-> (listed[j] - 1) + 1,
               total_students |->
                   SumSeq([n \in 1..Len(stops_data) |->
                              Len(stops_data[n].students)]),
               stops |-> stops_data]]

(***************************************************************************)
(* The pipeline: optimizer.py full_optimization_pipeline, from the         *)
(* clustered riders on.                                                    *)
(***************************************************************************)
NoPlan ==
    /\ demands = <<>>
    /\ depot_index = 0
    /\ min_buses = 0
    /\ theoretical_min_buses = 0
    /\ warned = FALSE
    /\ num_vehicles = 0
    /\ attempts = <<>>
    /\ best_routes = <<>>
    /\ best_num_buses = 0
    /\ routes = <<>>
    /\ vrp_metrics = EmptyMetrics
    /\ bus_loads = <<>>

NoGraph ==
    /\ G = [nodes |-> {}, edges |-> {}]
    /\ stop_nodes = <<>>
    /\ dist_matrix = <<>>

NoClassify ==
    /\ df_roster = <<>>
    /\ safe_walk_miles = 0
    /\ needs_bus = <<>>
    /\ df_bus_index = <<>>
    /\ df_walkers = <<>>

NoClustering ==
    /\ coords = <<>>
    /\ new_df = <<>>
    /\ max_distance_km = 0
    /\ enforce_calls = 0
    /\ stop_centers = <<>>

NoRuns ==
    /\ run_pc = <<>>
    /\ clock = 0
    /\ files = {}
    /\ timestamp = <<>>
    /\ run_routes = <<>>
    /\ map_index = <<>>

NoDb ==
    /\ optimization_runs = {}
    /\ routes_table = {}
    /\ stops_table = {}
    /\ student_assignments = {}
    /\ next_id = 0
    /\ response = <<>>

NoReport == route_details_out = <<>>

NoExt == NoClassify /\ NoClustering /\ NoRuns /\ NoDb /\ NoReport

\* df_bus after enforce_max_distance: every rider carries some cluster id
Init ==
    /\ pc = "clustered"
    /\ \E n \in 1..MaxRiders : df_bus \in [1..n -> 0..(n - 1)]
    /\ bus_capacity \in 1..MaxCapacity
    /\ num_bus \in 1..MaxBuses
    /\ stop_df = <<>>
    /\ NoPlan
    /\ NoGraph
    /\ NoExt

\* optimizer.py line 61
CreateStopDf ==
    /\ pc = "clustered"
    /\ stop_df' = CreateStopDfRows(df_bus)
    /\ pc' = "stops"
    /\ UNCHANGED <<bus_capacity, pipelineVars, graphVars, extVars>>

\* optimizer.py line 79
SplitLargeStops ==
    /\ pc = "stops"
    /\ stop_df' = SplitLargeStopsRows(stop_df, bus_capacity)
    /\ pc' = "split"
    /\ UNCHANGED <<bus_capacity, pipelineVars, graphVars, extVars>>

\* optimizer.py lines 85-90
PrepareVrp ==
    /\ pc = "split"
    /\ LET school_indices == {k \in 1..Len(stop_df) : stop_df[k].stop_id = SchoolStopId}
       IN /\ school_indices # {}
          /\ depot_index' = (CHOOSE k \in school_indices :
                                \A j \in school_indices : k <= j) - 1
    /\ demands' = [k \in 1..Len(stop_df) |-> stop_df[k].num_students]
    /\ pc' = "vrp"
    /\ UNCHANGED <<df_bus, bus_capacity, num_bus, stop_df, min_buses,
                   theoretical_min_buses, warned, num_vehicles, attempts,
                   best_routes, best_num_buses, routes, vrp_metrics, bus_loads,
                   graphVars, extVars>>

\* routing.py lines 27-47, called with min_buses = max(1, num_bus // 2)
\* (optimizer.py line 99, the same value as the default of line 28)
SolveEntry ==
    /\ pc = "vrp"
    /\ min_buses' = Max(1, num_bus \div 2)
    /\ theoretical_min_buses' = TheoreticalMinBuses(SumSeq(demands), bus_capacity)
    /\ warned' = (theoretical_min_buses' > num_bus)
    /\ best_routes' = <<>>
    /\ best_num_buses' = num_bus
    /\ num_vehicles' = FirstFleetSize(theoretical_min_buses', min_buses')
    /\ attempts' = <<>>
    /\ pc' = "search"
    /\ UNCHANGED <<df_bus, bus_capacity, num_bus, stop_df, demands, depot_index,
                   routes, vrp_metrics, bus_loads, graphVars, extVars>>

\* routing.py lines 47-127, one pass of the loop whose solver call returns a solution
AttemptSolved ==
    /\ pc = "search"
    /\ num_vehicles <= num_bus
    /\ \E solution \in SolverSolutions(demands, bus_capacity, depot_index, num_vehicles) :
          LET active == ActiveRoutes(demands, depot_index, solution)
              buses_used == Len(active)
              keep == KeepsSolution(buses_used, best_num_buses)
          IN /\ attempts' = Append(attempts, [num_vehicles |-> num_vehicles,
                                              solved |-> TRUE,
                                              buses_used |-> buses_used])
             /\ best_routes' = IF keep THEN active ELSE best_routes
             /\ best_num_buses' = IF keep THEN buses_used ELSE best_num_buses
             /\ IF keep /\ NearOptimal(buses_used, theoretical_min_buses)
                THEN /\ pc' = "break"
                     /\ UNCHANGED num_vehicles
                ELSE /\ pc' = "search"
                     /\ num_vehicles' = num_vehicles + 1
    /\ UNCHANGED <<df_bus, bus_capacity, num_bus, stop_df, demands, depot_index,
                   min_buses, theoretical_min_buses, warned, routes, vrp_metrics,
                   bus_loads, graphVars, extVars>>

\* routing.py lines 47-89 and 128-129, one pass whose solver call returns None
AttemptUnsolved ==
    /\ pc = "search"
    /\ num_vehicles <= num_bus
    /\ attempts' = Append(attempts, [num_vehicles |-> num_vehicles,
                                     solved |-> FALSE,
                                     buses_used |-> 0])
    /\ num_vehicles' = num_vehicles + 1
    /\ UNCHANGED <<pc, df_bus, bus_capacity, num_bus, stop_df, demands, depot_index,
                   min_buses, theoretical_min_buses, warned, best_routes,
                   best_num_buses, routes, vrp_metrics, bus_loads, graphVars, extVars>>

SearchOver == (pc = "search" /\ num_vehicles > num_bus) \/ pc = "break"

\* routing.py lines 132-157
ReturnPlan ==
    /\ SearchOver
    /\ best_routes # <<>>
    /\ routes' = best_routes
    /\ vrp_metrics' = Metrics(demands, bus_capacity, depot_index, num_bus,
                              best_routes, best_num_buses, theoretical_min_buses)
    /\ pc' = "returned"
    /\ UNCHANGED <<df_bus, bus_capacity, num_bus, stop_df, demands, depot_index,
                   min_buses, theoretical_min_buses, warned, num_vehicles, attempts,
                   best_routes, best_num_buses, bus_loads, graphVars, extVars>>

\* routing.py lines 158-161
ReturnFailure ==
    /\ SearchOver
    /\ best_routes = <<>>
    /\ routes' = <<>>
    /\ vrp_metrics' = EmptyMetrics
    /\ pc' = "returned"
    /\ UNCHANGED <<df_bus, bus_capacity, num_bus, stop_df, demands, depot_index,
                   min_buses, theoretical_min_buses, warned, num_vehicles, attempts,
                   best_routes, best_num_buses, bus_loads, graphVars, extVars>>

\* optimizer.py lines 102-103: raise ValueError
PipelineAbort ==
    /\ pc = "returned"
    /\ routes = <<>>
    /\ pc' = "aborted"
    /\ UNCHANGED <<df_bus, bus_capacity, num_bus, stop_df, demands, depot_index,
                   min_buses, theoretical_min_buses, warned, num_vehicles, attempts,
                   best_routes, best_num_buses, routes, vrp_metrics, bus_loads,
                   graphVars, extVars>>

\* optimizer.py lines 107-111: remove empty buses
FilterRoutes ==
    /\ pc = "returned"
    /\ routes # <<>>
    /\ LET filtered_routes == ActiveRoutes(demands, depot_index, routes)
       IN /\ routes' = filtered_routes
          /\ bus_loads' = [k \in 1..Len(filtered_routes) |->
                              RouteLoad(demands, depot_index, filtered_routes[k])]
    /\ pc' = "done"
    /\ UNCHANGED <<df_bus, bus_capacity, num_bus, stop_df, demands, depot_index,
                   min_buses, theoretical_min_buses, warned, num_vehicles, attempts,
                   best_routes, best_num_buses, vrp_metrics, graphVars, extVars>>

\* optimizer.py lines 152-158
GenerateRouteDetails ==
    /\ pc = "done"
    /\ route_details_out' = GenerateRouteDetailsOf(stop_df, routes, df_bus)
    /\ pc' = "details"
    /\ UNCHANGED <<bus_capacity, stop_df, pipelineVars, graphVars,
                   classifyVars, clusterVars, runVars, dbVars>>

Next ==
    \/ CreateStopDf
    \/ SplitLargeStops
    \/ PrepareVrp
    \/ SolveEntry
    \/ AttemptSolved
    \/ AttemptUnsolved
    \/ ReturnPlan
    \/ ReturnFailure
    \/ PipelineAbort
    \/ FilterRoutes
    \/ GenerateRouteDetails

Spec == Init /\ [][Next]_vars

(***************************************************************************)
(* split_large_stops on arbitrary stop lists: an optional school row, a    *)
(* stop of any demand and an optional second stop.                         *)
(***************************************************************************)
DemandRow(id, d) ==
    [stop_id |-> [school |-> FALSE, cluster |-> id, part |-> 0],
     original_stop_id |-> id,
     num_students |-> d,
     student_ids |-> <<>>]

SplitInputs ==
    {head \o <<DemandRow(0, d)>> \o tail :
        head \in {<<>>, <<SchoolRow>>},
        d \in 0..MaxSplitDemand,
        tail \in {<<>>} \cup {<<DemandRow(1, e)>> : e \in 0..MaxSecondDemand}}

InitSplit ==
    /\ pc = "stops"
    /\ df_bus = <<>>
    /\ num_bus = 1
    /\ bus_capacity \in 1..MaxSplitCapacity
    /\ stop_df \in SplitInputs
    /\ NoPlan
    /\ NoGraph
    /\ NoExt

NextSplit == SplitLargeStops

SpecSplit == InitSplit /\ [][NextSplit]_vars

(***************************************************************************)
(* build_distance_matrix on every road graph over MaxNodes nodes and every *)
(* pair of stop nodes (two stops may snap to one node).                    *)
(***************************************************************************)
GraphNodes == 1..MaxNodes

\* an entry [i, j] is read off the nodes of stops i and j alone: two stops show
\* every pair of nodes, the pairs of one node included
InitMatrix ==
    /\ pc = "graph"
    /\ G \in [nodes : {GraphNodes},
              edges : SUBSET {e \in GraphNodes \X GraphNodes : e[1] # e[2]}]
    /\ stop_nodes \in GraphNodes \X GraphNodes
    /\ dist_matrix = <<>>
    /\ df_bus = <<>>
    /\ num_bus = 1
    /\ bus_capacity = 1
    /\ stop_df = <<>>
    /\ NoPlan
    /\ NoExt

\* optimizer.py lines 76 and 81
BuildDistanceMatrix ==
    /\ pc = "graph"
    /\ dist_matrix' = BuildDistanceMatrixOf(G, stop_nodes)
    /\ pc' = "matrix"
    /\ UNCHANGED <<G, stop_nodes, bus_capacity, stop_df, pipelineVars, extVars>>

NextMatrix == BuildDistanceMatrix

SpecMatrix == InitMatrix /\ [][NextMatrix]_vars

(***************************************************************************)
(* The pipeline on one rider with the default capacity and fleet of        *)
(* full_optimization_pipeline: one rider stop of demand 1.                 *)
(***************************************************************************)
DefaultBusCapacity == 40

DefaultNumBus == 60

InitSingleRider ==
    /\ pc = "clustered"
    /\ df_bus = <<0>>
    /\ bus_capacity = DefaultBusCapacity
    /\ num_bus = DefaultNumBus
    /\ stop_df = <<>>
    /\ NoPlan
    /\ NoGraph
    /\ NoExt

SpecSingleRider == InitSingleRider /\ [][Next]_vars

(***************************************************************************)
(* clustering.py: enforce_max_distance                                     *)
(*                                                                         *)
(* Riders stand on one meridian, coords[s] kilometres north of a fixed     *)
(* point, so that the haversine distance times 6371 of two riders is the   *)
(* difference of their coordinates.  A centroid is the fraction sum / n;   *)
(* distances are kept times n, which keeps every comparison in integers.   *)
(*                                                                         *)
(* KMeans is a library: fit_predict raises ValueError for fewer samples    *)
(* than clusters, and otherwise labels every sample with the nearest of    *)
(* n_clusters centres: equal samples share a label, the samples of a label *)
(* are neighbours on the line, and two distinct samples or more make two   *)
(* labels or more.                                                         *)
(***************************************************************************)
Abs(x) == IF x < 0 THEN -x ELSE x

Members(assign, id) == {s \in DOMAIN assign : assign[s] = id}

RECURSIVE SumCoords(_, _)
SumCoords(pos, S) ==
    IF S = {} THEN 0
    ELSE LET s == CHOOSE t \in S : TRUE IN pos[s] + SumCoords(pos, S \ {s})

\* group[['Latitude', 'Longitude']].mean(): the centroid sum / n of cluster id
StopCenter(pos, assign, id) ==
    [sum |-> SumCoords(pos, Members(assign, id)),
     n |-> Cardinality(Members(assign, id))]

\* lines 109-114: distance_to_stop_km of rider s from centre c, times c.n
DistanceToStopTimesN(pos, s, c) == Abs(c.n * pos[s] - c.sum)

\* group['distance_to_stop_km'].min() in place of .max(), times n
MinClusterDistanceTimesN(pos, assign, id) ==
    LET c == StopCenter(pos, assign, id)
        ds == {DistanceToStopTimesN(pos, s, c) : s \in Members(assign, id)}
    IN CHOOSE d \in ds : \A e \in ds : e >= d

\* group['distance_to_stop_km'].max(), times n
MaxClusterDistanceTimesN(pos, assign, id) ==
    LET c == StopCenter(pos, assign, id)
        ds == {DistanceToStopTimesN(pos, s, c) : s \in Members(assign, id)}
    IN CHOOSE d \in ds : \A e \in ds : e <= d

\* line 118 with >= in place of >
ExceedsOrMeetsMax(dn, n, maxd) == dn >= n * maxd

\* line 118: group['distance_to_stop_km'].max() > max_distance_km
ExceedsMax(dn, n, maxd) == dn > n * maxd

\* a set of integers as the ascending list groupby walks through
RECURSIVE Ascending(_)
Ascending(S) ==
    IF S = {} THEN <<>>
    ELSE LET x == CHOOSE y \in S : \A z \in S : y <= z
         IN <<x>> \o Ascending(S \ {x})

\* lines 116-119 without the test of line 118
EveryCluster(pos, assign, maxd) == Ascending(Range(assign))

\* lines 116-119: problematic_clusters
ProblematicClusters(pos, assign, maxd) ==
    Ascending({id \in Range(assign) :
                 ExceedsMax(MaxClusterDistanceTimesN(pos, assign, id),
                            Cardinality(Members(assign, id)), maxd)})

\* line 128: max(2, math.ceil(group['distance_to_stop_km'].max() / max_distance_km))
NumSubclusters(dn, n, maxd) == Max(2, CeilDiv(dn, n * maxd))

\* KMeans(n_clusters = k).fit_predict on fewer than k samples: ValueError
KMeansRaises(n_samples, k) == n_samples < k

\* KMeans(n_clusters = k, random_state = 42).fit_predict(sub_coords): the labels
\* of the riders in group
KMeansLabels(pos, group, k) ==
    {lab \in [group -> 0..(k - 1)] :
        /\ \A s, t \in group : pos[s] = pos[t] => lab[s] = lab[t]
        /\ \A s, t, u \in group :
              (pos[s] < pos[u] /\ pos[u] < pos[t] /\ lab[s] = lab[t])
                  => lab[u] = lab[s]
        /\ (\E s, t \in group : pos[s] # pos[t])
              => (\E s, t \in group : lab[s] # lab[t])}

\* lines 124-139: the clusters of probs are split one after the other; the
\* distances are those of the pass's start, max_existing_id moves on by
\* num_subclusters.  A result is the new assignment, or raised when KMeans raised.
RECURSIVE SplitOutcomes(_, _, _, _, _, _)
SplitOutcomes(pos, start, assign, probs, max_existing_id, maxd) ==
    IF probs = <<>> THEN {[raised |-> FALSE, assign |-> assign]}
    ELSE LET stop_id == Head(probs)
             group == Members(assign, stop_id)
             num_subclusters ==
                 NumSubclusters(MaxClusterDistanceTimesN(pos, start, stop_id),
                                Cardinality(group), maxd)
         IN IF KMeansRaises(Cardinality(group), num_subclusters)
            THEN {[raised |-> TRUE, assign |-> assign]}
            ELSE UNION {SplitOutcomes(pos, start,
                                      [s \in DOMAIN assign |->
                                          IF s \in group
                                          THEN max_existing_id + new_labels[s]
                                          ELSE assign[s]],
                                      Tail(probs),
                                      max_existing_id + num_subclusters, maxd) :
                           new_labels \in KMeansLabels(pos, group, num_subclusters)}

\* line 124 without the + 1
MaxExistingIdNoStep(assign) ==
    CHOOSE x \in Range(assign) : \A y \in Range(assign) : y <= x

\* new_df['assigned_stop_id'].max() + 1
MaxExistingId(assign) ==
    (CHOOSE x \in Range(assign) : \A y \in Range(assign) : y <= x) + 1

\* lines 99-139: one pass of the while loop.  No problematic cluster: break and
\* return new_df.  Otherwise every problematic cluster is split, or KMeans raises
\* and the exception leaves enforce_max_distance and the pipeline.
EnforcePass ==
    /\ pc = "enforce"
    /\ LET problematic_clusters == ProblematicClusters(coords, new_df, max_distance_km)
       IN IF problematic_clusters = <<>>
          THEN /\ pc' = "enforced"
               /\ UNCHANGED new_df
          ELSE \E res \in SplitOutcomes(coords, new_df, new_df, problematic_clusters,
                                        MaxExistingId(new_df), max_distance_km) :
                  IF res.raised
                  THEN /\ pc' = "value_error"
                       /\ UNCHANGED new_df
                  ELSE /\ pc' = "enforce"
                       /\ new_df' = res.assign
    /\ UNCHANGED <<coords, max_distance_km, enforce_calls, stop_centers>>
    /\ UNCHANGED <<df_bus, bus_capacity, stop_df, num_bus, demands, depot_index,
                   min_buses, theoretical_min_buses, warned, num_vehicles, attempts,
                   best_routes, best_num_buses, routes, vrp_metrics, bus_loads,
                   graphVars, classifyVars, runVars, dbVars, reportVars>>

\* enforce_max_distance called on the frame it returned
EnforceAgain ==
    /\ pc = "enforced"
    /\ enforce_calls < MaxEnforceCalls
    /\ enforce_calls' = enforce_calls + 1
    /\ pc' = "enforce"
    /\ UNCHANGED <<coords, new_df, max_distance_km, stop_centers>>
    /\ UNCHANGED <<df_bus, bus_capacity, stop_df, num_bus, demands, depot_index,
                   min_buses, theoretical_min_buses, warned, num_vehicles, attempts,
                   best_routes, best_num_buses, routes, vrp_metrics, bus_loads,
                   graphVars, classifyVars, runVars, dbVars, reportVars>>

\* create_stop_df lines 57-75: latitude / longitude of the stop of every cluster,
\* in the order of unique()
StopCenters(pos, assign) ==
    LET ids == Unique(assign)
    IN [k \in 1..Len(ids) |->
           [stop_id |-> ids[k], center |-> StopCenter(pos, assign, ids[k])]]

\* optimizer.py line 61 on the frame enforce_max_distance returned
CreateStopCenters ==
    /\ pc = "enforced"
    /\ stop_centers' = StopCenters(coords, new_df)
    /\ pc' = "stop_centers"
    /\ UNCHANGED <<coords, new_df, max_distance_km, enforce_calls>>
    /\ UNCHANGED <<df_bus, bus_capacity, stop_df, num_bus, demands, depot_index,
                   min_buses, theoretical_min_buses, warned, num_vehicles, attempts,
                   best_routes, best_num_buses, routes, vrp_metrics, bus_loads,
                   graphVars, classifyVars, runVars, dbVars, reportVars>>

\* rider coordinates in ascending order (the order of the roster plays no part in
\* the clustering) and the labels kmeans_model.predict gave them
InitCluster ==
    /\ pc = "enforce"
    /\ \E n \in 1..MaxClusterRiders :
          /\ coords \in {c \in [1..n -> 0..MaxCoord] :
                           \A i \in 1..(n - 1) : c[i] <= c[i + 1]}
          /\ new_df \in [1..n -> 0..(MaxInitialClusters - 1)]
    /\ max_distance_km \in 1..MaxDistanceKm
    /\ enforce_calls = 1
    /\ stop_centers = <<>>
    /\ df_bus = <<>>
    /\ num_bus = 1
    /\ bus_capacity = 1
    /\ stop_df = <<>>
    /\ NoPlan
    /\ NoGraph
    /\ NoClassify
    /\ NoRuns
    /\ NoDb
    /\ NoReport

NextCluster ==
    \/ EnforcePass
    \/ EnforceAgain
    \/ CreateStopCenters

SpecCluster == InitCluster /\ [][NextCluster]_vars

(***************************************************************************)
(* optimizer.py lines 35-47: riders and walkers                            *)
(*                                                                         *)
(* safe_walk_miles is counted in tenths of a mile and a distance to the    *)
(* school in centimetres, so that SAFE_WALK_KM = (safe_walk_miles / 2.7)   *)
(* * 1.60934 is the fraction 160934 * tenths / 27 of a centimetre.         *)
(***************************************************************************)
SafeWalkDivisor == 27

KmPerMile == 160934

\* line 44 with >= in place of >
NeedsBusFromThreshold(distance_cm, tenths) ==
    SafeWalkDivisor * distance_cm >= KmPerMile * tenths

\* lines 35 and 44: distance_to_school_km > SAFE_WALK_KM
NeedsBus(distance_cm, tenths) ==
    SafeWalkDivisor * distance_cm > KmPerMile * tenths

\* df[mask]: the students of the roster whose mask is true, in roster order
Masked(mask) == SelectSeq([s \in 1..Len(mask) |-> s], LAMBDA s : mask[s])

\* lines 44-47
Classify ==
    /\ pc = "roster"
    /\ needs_bus' = [s \in 1..Len(df_roster) |-> NeedsBus(df_roster[s], safe_walk_miles)]
    /\ df_bus_index' = Masked(needs_bus')
    /\ df_walkers' = Masked([s \in 1..Len(df_roster) |-> ~needs_bus'[s]])
    /\ pc' = "classified"
    /\ UNCHANGED <<df_roster, safe_walk_miles>>
    /\ UNCHANGED <<df_bus, bus_capacity, stop_df, num_bus, demands, depot_index,
                   min_buses, theoretical_min_buses, warned, num_vehicles, attempts,
                   best_routes, best_num_buses, routes, vrp_metrics, bus_loads,
                   graphVars, clusterVars, runVars, dbVars, reportVars>>

\* distances at the school, next to SAFE_WALK_KM on both sides and, where it is a
\* whole number of centimetres, on it
DistancesNear(tenths) ==
    LET q == (KmPerMile * tenths) \div SafeWalkDivisor
    IN {0, q - 1, q, q + 1}

InitClassify ==
    /\ pc = "roster"
    /\ safe_walk_miles \in 1..MaxSafeWalkTenths
    /\ \E n \in 1..MaxStudents : df_roster \in [1..n -> DistancesNear(safe_walk_miles)]
    /\ needs_bus = <<>>
    /\ df_bus_index = <<>>
    /\ df_walkers = <<>>
    /\ df_bus = <<>>
    /\ num_bus = 1
    /\ bus_capacity = 1
    /\ stop_df = <<>>
    /\ NoPlan
    /\ NoGraph
    /\ NoClustering
    /\ NoRuns
    /\ NoDb
    /\ NoReport

NextClassify == Classify

SpecClassify == InitClassify /\ [][NextClassify]_vars

(***************************************************************************)
(* Concurrent runs of full_optimization_pipeline and the files they write  *)
(* below assets/.  A path is [kind, ts, n]: the elbow plot, the map of a   *)
(* timestamp, route n of the folder of a timestamp.  strftime reads the    *)
(* clock in whole seconds.  A step of a run is one write; the steps of the *)
(* runs interleave freely.                                                 *)
(***************************************************************************)
\* the two runs
RunIds == {1, 2}

ElbowPlotPath == [kind |-> "elbow_method.png", ts |-> 0, n |-> 0]

RouteMapPath(ts) == [kind |-> "optimized_route_map", ts |-> ts, n |-> 0]

IndividualMapPath(ts, n) == [kind |-> "individual_maps", ts |-> ts, n |-> n]

\* open(path, 'w'): the file at path holds what writer wrote last
WriteFile(fs, path, writer) ==
    {f \in fs : f.path # path} \cup {[path |-> path, writer |-> writer]}

RunVarsUnchangedElse ==
    UNCHANGED <<pc, df_bus, bus_capacity, stop_df, num_bus, demands, depot_index,
                min_buses, theoretical_min_buses, warned, num_vehicles, attempts,
                best_routes, best_num_buses, routes, vrp_metrics, bus_loads,
                graphVars, classifyVars, clusterVars, dbVars, reportVars>>

\* clustering.py line 45: plt.savefig('assets/elbow_method.png')
SaveElbowPlot(r) ==
    /\ run_pc[r] = "clustering"
    /\ files' = WriteFile(files, ElbowPlotPath, r)
    /\ run_pc' = [run_pc EXCEPT ![r] = "map"]
    /\ UNCHANGED <<clock, timestamp, run_routes, map_index>>
    /\ RunVarsUnchangedElse

\* optimizer.py lines 125-129: optimized_route_map_{timestamp}.html
SaveRouteMap(r) ==
    /\ run_pc[r] = "map"
    /\ files' = WriteFile(files, RouteMapPath(clock), r)
    /\ run_pc' = [run_pc EXCEPT ![r] = "individual_maps"]
    /\ UNCHANGED <<clock, timestamp, run_routes, map_index>>
    /\ RunVarsUnchangedElse

\* map.py lines 83-85: run_{timestamp}, os.makedirs(run_folder, exist_ok=True)
MakeRunFolder(r) ==
    /\ run_pc[r] = "individual_maps"
    /\ timestamp' = [timestamp EXCEPT ![r] = clock]
    /\ map_index' = [map_index EXCEPT ![r] = 0]
    /\ run_pc' = [run_pc EXCEPT ![r] = "route_loop"]
    /\ UNCHANGED <<clock, files, run_routes>>
    /\ RunVarsUnchangedElse

\* map.py lines 89-110: one pass of the loop, route_{i+1}.html
SaveIndividualMap(r) ==
    /\ run_pc[r] = "route_loop"
    /\ map_index[r] < run_routes[r]
    /\ files' = WriteFile(files, IndividualMapPath(timestamp[r], map_index[r] + 1), r)
    /\ map_index' = [map_index EXCEPT ![r] = map_index[r] + 1]
    /\ UNCHANGED <<clock, timestamp, run_routes, run_pc>>
    /\ RunVarsUnchangedElse

\* map.py lines 112-113
ReturnFilePaths(r) ==
    /\ run_pc[r] = "route_loop"
    /\ map_index[r] = run_routes[r]
    /\ run_pc' = [run_pc EXCEPT ![r] = "done"]
    /\ UNCHANGED <<clock, files, timestamp, run_routes, map_index>>
    /\ RunVarsUnchangedElse

\* a second passes
Tick ==
    /\ clock < MaxClock
    /\ clock' = clock + 1
    /\ UNCHANGED <<run_pc, files, timestamp, run_routes, map_index>>
    /\ RunVarsUnchangedElse

InitRuns ==
    /\ pc = "runs"
    /\ run_pc = [r \in RunIds |-> "clustering"]
    /\ clock = 0
    /\ files = {}
    /\ timestamp = [r \in RunIds |-> 0]
    /\ run_routes \in [RunIds -> 1..MaxRunRoutes]
    /\ map_index = [r \in RunIds |-> 0]
    /\ df_bus = <<>>
    /\ num_bus = 1
    /\ bus_capacity = 1
    /\ stop_df = <<>>
    /\ NoPlan
    /\ NoGraph
    /\ NoClassify
    /\ NoClustering
    /\ NoDb
    /\ NoReport

NextRuns ==
    \/ Tick
    \/ \E r \in RunIds :
          \/ SaveElbowPlot(r)
          \/ SaveRouteMap(r)
          \/ MakeRunFolder(r)
          \/ SaveIndividualMap(r)
          \/ ReturnFilePaths(r)

SpecRuns == InitRuns /\ [][NextRuns]_vars

(***************************************************************************)
(* main.py: save_run, publish_run and delete_run over the tables of        *)
(* db_models.py, one request at a time.  route_details of a payload is a   *)
(* list of routes, a route a list of stops, a stop the list of the         *)
(* student_ids picked up there.  Primary keys come from counters.          *)
(***************************************************************************)
StopPayloads == {<<>>, <<1>>, <<1, 2>>, <<1, 1>>}

RoutePayloads == {<<stop>> : stop \in StopPayloads}

Payloads ==
    {<<>>} \cup {<<route>> : route \in RoutePayloads}
           \cup {<<<<<<1>>>>, <<<<1>>>>>>, <<<<<<1>>>>, <<<<2>>>>>>}

\* the student_ids of a payload, route by route and stop by stop
StudentsOf(route_details) ==
    Flatten([i \in 1..Len(route_details) |-> Flatten(route_details[i])])

\* UniqueConstraint('student_id', 'run_id'): a student_id twice in one run makes
\* the flush raise IntegrityError
ViolatesUniqueStudentRun(route_details) ==
    LET ids == StudentsOf(route_details)
    IN \E a, b \in 1..Len(ids) : a # b /\ ids[a] = ids[b]

\* the number of stops in the routes before route i
StopsBefore(route_details, i) ==
    SumSeq([k \in 1..(i - 1) |-> Len(route_details[k])])

\* lines 309-319: one Route row per route of the payload
RouteRows(route_details, run_id, ids) ==
    {[route_id |-> ids.route + i - 1, run_id |-> run_id] :
        i \in 1..Len(route_details)}

\* lines 324-336: one Stop row per stop
StopRows(route_details, ids) ==
    {[stop_id |-> ids.stop + StopsBefore(route_details, p[1]) + p[2] - 1,
      route_id |-> ids.route + p[1] - 1] :
        p \in {q \in (1..Len(route_details)) \X (1..2) :
                  q[2] <= Len(route_details[q[1]])}}

\* lines 339-375: one StudentAssignment row per student of a stop
AssignmentRows(route_details, run_id, ids) ==
    {[student_id |-> route_details[p[1]][p[2]][p[3]],
      run_id |-> run_id,
      route_id |-> ids.route + p[1] - 1,
      stop_id |-> ids.stop + StopsBefore(route_details, p[1]) + p[2] - 1] :
        p \in {q \in (1..Len(route_details)) \X (1..2) \X (1..2) :
                  /\ q[2] <= Len(route_details[q[1]])
                  /\ q[3] <= Len(route_details[q[1]][q[2]])}}

DbVarsUnchangedElse ==
    UNCHANGED <<pc, df_bus, bus_capacity, stop_df, num_bus, demands, depot_index,
                min_buses, theoretical_min_buses, warned, num_vehicles, attempts,
                best_routes, best_num_buses, routes, vrp_metrics, bus_loads,
                graphVars, classifyVars, clusterVars, runVars, reportVars>>

\* lines 290-381.  The run row is committed first (line 302); routes, stops and
\* assignments are flushed and committed at the end (line 381), or rolled back
\* when the flush raises (lines 389-394).
SaveRun ==
    /\ pc = "serving"
    /\ next_id.run <= MaxSavedRuns
    /\ \E route_details \in Payloads :
          LET run_id == next_id.run IN
          /\ optimization_runs' =
                 optimization_runs \cup {[run_id |-> run_id, is_published |-> FALSE]}
          /\ IF ViolatesUniqueStudentRun(route_details)
             THEN /\ UNCHANGED <<routes_table, stops_table, student_assignments>>
                  /\ next_id' = [next_id EXCEPT !.run = run_id + 1]
                  /\ response' = [op |-> "save_run", run_id |-> run_id,
                                  status |-> "error"]
             ELSE /\ routes_table' =
                         routes_table \cup RouteRows(route_details, run_id, next_id)
                  /\ stops_table' = stops_table \cup StopRows(route_details, next_id)
                  /\ student_assignments' =
                         student_assignments
                             \cup AssignmentRows(route_details, run_id, next_id)
                  /\ next_id' =
                         [run |-> run_id + 1,
                          route |-> next_id.route + Len(route_details),
                          stop |-> next_id.stop
                                     + StopsBefore(route_details,
                                                   Len(route_details) + 1)]
                  /\ response' = [op |-> "save_run", run_id |-> run_id,
                                  status |-> "success"]
    /\ DbVarsUnchangedElse

\* line 537: update({is_published: False}) on every run
UnpublishAll(runs) ==
    {[run_id |-> x.run_id, is_published |-> FALSE] : x \in runs}

\* lines 537-542 without the update of line 537
PublishRowsKeepOthers(runs, run_id) ==
    {[run_id |-> x.run_id, is_published |-> x.is_published \/ x.run_id = run_id] :
        x \in runs}

\* lines 537-542: every run unpublished, then run_id published
PublishRows(runs, run_id) ==
    {[run_id |-> x.run_id, is_published |-> (x.run_id = run_id)] : x \in runs}

\* lines 534-543.  For an unknown run_id the update of line 537 has been issued
\* and not committed when HTTPException leaves the handler: get_db (database.py)
\* decides whether the session discards it or not.
PublishRun ==
    /\ pc = "serving"
    /\ \E run_id \in 1..MaxSavedRuns :
          IF \E x \in optimization_runs : x.run_id = run_id
          THEN /\ optimization_runs' = PublishRows(optimization_runs, run_id)
               /\ response' = [op |-> "publish_run", run_id |-> run_id,
                               status |-> "success"]
          ELSE /\ \/ UNCHANGED optimization_runs
                  \/ optimization_runs' = UnpublishAll(optimization_runs)
               /\ response' = [op |-> "publish_run", run_id |-> run_id,
                               status |-> "404"]
    /\ UNCHANGED <<routes_table, stops_table, student_assignments, next_id>>
    /\ DbVarsUnchangedElse

\* line 643 deleting whatever run it is given
DeleteAlwaysAllowed(run) == TRUE

\* lines 643-647: a published run is not deleted
DeleteAllowed(run) == ~run.is_published

\* lines 629-662.  db.delete(run) takes the run's routes, their stops and the
\* run's assignments with it (cascade="all, delete-orphan", ondelete="CASCADE").
DeleteRun ==
    /\ pc = "serving"
    /\ \E run_id \in 1..MaxSavedRuns :
          LET found == {x \in optimization_runs : x.run_id = run_id}
              gone == {r.route_id : r \in {q \in routes_table : q.run_id = run_id}}
          IN IF found = {}
             THEN /\ response' = [op |-> "delete_run", run_id |-> run_id,
                                  status |-> "404"]
                  /\ UNCHANGED <<optimization_runs, routes_table, stops_table,
                                 student_assignments>>
             ELSE IF \E x \in found : ~DeleteAllowed(x)
             THEN /\ response' = [op |-> "delete_run", run_id |-> run_id,
                                  status |-> "400"]
                  /\ UNCHANGED <<optimization_runs, routes_table, stops_table,
                                 student_assignments>>
             ELSE /\ optimization_runs' = optimization_runs \ found
                  /\ routes_table' = {r \in routes_table : r.run_id # run_id}
                  /\ stops_table' = {s \in stops_table : s.route_id \notin gone}
                  /\ student_assignments' =
                         {a \in student_assignments : a.run_id # run_id}
                  /\ response' = [op |-> "delete_run", run_id |-> run_id,
                                  status |-> "success"]
    /\ UNCHANGED next_id
    /\ DbVarsUnchangedElse

InitDb ==
    /\ pc = "serving"
    /\ optimization_runs = {}
    /\ routes_table = {}
    /\ stops_table = {}
    /\ student_assignments = {}
    /\ next_id = [run |-> 1, route |-> 1, stop |-> 1]
    /\ response = [op |-> "none", run_id |-> 0, status |-> "none"]
    /\ df_bus = <<>>
    /\ num_bus = 1
    /\ bus_capacity = 1
    /\ stop_df = <<>>
    /\ NoPlan
    /\ NoGraph
    /\ NoClassify
    /\ NoClustering
    /\ NoRuns
    /\ NoReport

NextDb ==
    \/ SaveRun
    \/ PublishRun
    \/ DeleteRun

SpecDb == InitDb /\ [][NextDb]_vars

(***************************************************************************)
(* solve_vrp_with_fleet_limit called on four rider stops of one student    *)
(* each: fleets and capacities for which the search keeps a solution and   *)
(* goes on to a further attempt.                                           *)
(***************************************************************************)
InitSearch ==
    /\ pc = "vrp"
    /\ demands = <<0, 1, 1, 1, 1>>
    /\ depot_index = 0
    /\ bus_capacity \in {1, 2, 4}
    /\ num_bus \in {2, 4, 5}
    /\ df_bus = <<0, 1, 2, 3>>
    /\ stop_df = <<>>
    /\ min_buses = 0
    /\ theoretical_min_buses = 0
    /\ warned = FALSE
    /\ num_vehicles = 0
    /\ attempts = <<>>
    /\ best_routes = <<>>
    /\ best_num_buses = 0
    /\ routes = <<>>
    /\ vrp_metrics = EmptyMetrics
    /\ bus_loads = <<>>
    /\ NoGraph
    /\ NoExt

NextSearch ==
    \/ SolveEntry
    \/ AttemptSolved
    \/ AttemptUnsolved
    \/ ReturnPlan
    \/ ReturnFailure

SpecSearch == InitSearch /\ [][NextSearch]_vars

(***************************************************************************)
(* enforce_max_distance on four riders: two clusters of two riders can     *)
(* violate the bound in one pass.                                          *)
(***************************************************************************)
InitClusterPass ==
    /\ pc = "enforce"
    /\ coords \in {c \in [1..4 -> 0..MaxCoord] : \A i \in 1..3 : c[i] <= c[i + 1]}
    /\ new_df \in [1..4 -> 0..(MaxInitialClusters - 1)]
    /\ max_distance_km \in 1..MaxDistanceKm
    /\ enforce_calls = 1
    /\ stop_centers = <<>>
    /\ df_bus = <<>>
    /\ num_bus = 1
    /\ bus_capacity = 1
    /\ stop_df = <<>>
    /\ NoPlan
    /\ NoGraph
    /\ NoClassify
    /\ NoRuns
    /\ NoDb
    /\ NoReport

SpecClusterPass == InitClusterPass /\ [][NextCluster]_vars

(***************************************************************************)
(* Properties.                                                             *)
(***************************************************************************)
\* ceil(a / b) by its definition: the least n with n * b >= a
CeilOf(a, b) == CHOOSE n \in 0..a : n * b >= a /\ (n - 1) * b < a

PlanReturned == pc = "returned" /\ routes # <<>>

AnyAttemptSolved == \E k \in 1..Len(attempts) : attempts[k].solved

NonDepotNodes == {i \in 0..(Len(demands) - 1) : i # depot_index}

\* the number of places node i takes in the routes rts
Visits(rts, i) ==
    Cardinality({<<k, j>> \in (1..Len(rts)) \X (1..(Len(demands) + 2)) :
                    j <= Len(rts[k]) /\ rts[k][j] = i})

CoversAllDemand(rts) == \A i \in NonDepotNodes : Visits(rts, i) = 1

\* C1: when the theoretical minimum fleet size exceeds the maximum fleet size,
\* solve_vrp_with_fleet_limit warns, still makes solver attempts and returns a
\* plan rather than failure.
C1_ProceedsBeyondFleetLimit ==
    (pc = "returned" /\ theoretical_min_buses > num_bus)
        => (warned /\ attempts # <<>> /\ routes # <<>>)

\* C2: solve_vrp_with_fleet_limit returns failure only if no attempt was solved:
\* whenever some attempt yielded a solution, a non-empty plan covering all demand
\* is returned.
C2_FailsOnlyIfNothingSolved ==
    (pc = "returned" /\ AnyAttemptSolved)
        => (routes # <<>> /\ CoversAllDemand(routes))

\* C4: after create_stop_df and split_large_stops every rider is in the
\* assigned-student list of exactly one stop.
C4_RiderAtExactlyOneStop ==
    pc = "split" =>
        \A s \in 1..Len(df_bus) :
            Cardinality({k \in 1..Len(stop_df) :
                            s \in Range(stop_df[k].student_ids)}) = 1

\* C5: every stop returned by split_large_stops has demand at most the capacity.
C5_NoStopExceedsCapacity ==
    pc = "split" =>
        \A k \in 1..Len(stop_df) : stop_df[k].num_students <= bus_capacity

C5_Witness ==
    /\ pc = "split"
    /\ \E k \in 1..Len(stop_df) :
          /\ stop_df[k].stop_id.part >= 2
          /\ stop_df[k].num_students = bus_capacity

\* the siblings of row in the split list df, in order
SiblingsOf(df, row) ==
    SelectSeq(df, LAMBDA r : /\ r.original_stop_id = row.original_stop_id
                             /\ r.stop_id.part >= 1)

NumStudentsOf(df) == [k \in 1..Len(df) |-> df[k].num_students]

\* C6: a stop of demand d > capacity c is split into exactly n = ceil(d / c)
\* siblings, the first n - 1 of demand ceil(d / n), the last of the remainder;
\* every sibling has demand at least 1 and the sibling demands sum to d.
C6_SiblingDemands ==
    [][(pc = "stops" /\ pc' = "split") =>
        \A k \in 1..Len(stop_df) :
            stop_df[k].num_students > bus_capacity =>
                LET d == stop_df[k].num_students
                    n == CeilOf(d, bus_capacity)
                    sib == NumStudentsOf(SiblingsOf(stop_df', stop_df[k]))
                IN /\ Len(sib) = n
                   /\ \A i \in 1..(n - 1) : sib[i] = CeilOf(d, n)
                   /\ sib[n] = d - (n - 1) * CeilOf(d, n)
                   /\ \A i \in 1..n : sib[i] >= 1
                   /\ SumSeq(sib) = d]_vars

C6_Witness ==
    /\ pc = "split"
    /\ \E k \in 1..Len(stop_df) :
          /\ stop_df[k].stop_id.part >= 3
          /\ stop_df[k].num_students < stop_df[k - 1].num_students

RiderStops(df) == SelectSeq(df, LAMBDA r : ~r.stop_id.school)

SingleStopScenario ==
    /\ bus_capacity = 40
    /\ NumStudentsOf(RiderStops(stop_df)) = <<100>>

\* C7 as stated: one stop of demand 100 with capacity 40 is split into exactly 3
\* siblings of demands 40, 40 and 20.
C7_Split100By40AsStated ==
    [][(pc = "stops" /\ SingleStopScenario /\ pc' = "split")
          => NumStudentsOf(RiderStops(stop_df')) = <<40, 40, 20>>]_vars

\* C7 amended: one stop of demand 100 with capacity 40 is split into exactly 3
\* siblings of demands 34, 34 and 32.
C7_Split100By40 ==
    [][(pc = "stops" /\ SingleStopScenario /\ pc' = "split")
          => NumStudentsOf(RiderStops(stop_df')) = <<34, 34, 32>>]_vars

C7_Witness ==
    /\ pc = "split"
    /\ bus_capacity = 40
    /\ NumStudentsOf(RiderStops(stop_df)) = <<34, 34, 32>>

\* C8: every route of a plan returned by solve_vrp_with_fleet_limit carries at most
\* the vehicle capacity and starts and ends at the depot index.
C8_RoutesWithinCapacity ==
    PlanReturned =>
        \A k \in 1..Len(routes) :
            /\ RouteLoad(demands, depot_index, routes[k]) <= bus_capacity
            /\ routes[k][1] = depot_index
            /\ routes[k][Len(routes[k])] = depot_index

C8_Witness ==
    /\ PlanReturned
    /\ Len(routes) >= 2
    /\ \E k \in 1..Len(routes) :
          /\ Len(routes[k]) >= 4
          /\ RouteLoad(demands, depot_index, routes[k]) = bus_capacity

\* C9: in a plan returned by the pipeline the route demands sum to the number of
\* riders: every non-depot stop is on exactly one returned route.
C9_RouteDemandsSumToRiders ==
    pc = "done" =>
        /\ SumSeq(bus_loads) = Len(df_bus)
        /\ CoversAllDemand(routes)

C9_Witness ==
    /\ pc = "done"
    /\ Len(routes) >= 2
    /\ \E k \in 1..Len(stop_df) : stop_df[k].stop_id.part >= 1
    /\ AnyAttemptSolved
    /\ \E k \in 1..Len(attempts) :
          attempts[k].solved /\ attempts[k].buses_used < attempts[k].num_vehicles

\* C10: the buses_used a returned plan reports is at most the requested maximum
\* fleet size and at least ceil(total demand / capacity).
C10_FleetSizeWithinBounds ==
    PlanReturned =>
        /\ vrp_metrics.buses_used <= num_bus
        /\ vrp_metrics.buses_used >= CeilOf(SumSeq(demands), bus_capacity)

C10_Witness ==
    /\ PlanReturned
    /\ vrp_metrics.buses_used = CeilOf(SumSeq(demands), bus_capacity)
    /\ vrp_metrics.buses_used >= 2
    /\ vrp_metrics.buses_used + 1 = num_bus

\* the nodes some path of the graph leads to from the nodes in S
RECURSIVE ReachableFrom(_, _)
ReachableFrom(graph, S) ==
    LET T == S \cup {e[2] : e \in {f \in graph.edges : f[1] \in S}}
    IN IF T = S THEN S ELSE ReachableFrom(graph, T)

Unreachable(graph, u, v) == v \notin ReachableFrom(graph, {u})

\* C3: for every pair of stops (i, j) with stop j's node unreachable from stop i's
\* node, build_distance_matrix records the sentinel distance 1,000,000 in [i, j].
C3_UnreachableIsSentinel ==
    pc = "matrix" =>
        \A i, j \in 1..Len(stop_nodes) :
            Unreachable(G, stop_nodes[i], stop_nodes[j])
                => dist_matrix[i][j] = 1000000

\* the stops of route r other than the depot, by position
NonDepotVisits(r) == {j \in 1..Len(r) : r[j] # depot_index}

\* C11: for one rider stop of demand 1, capacity 40 and a maximum fleet of 60 (the
\* default minimum fleet), the theoretical minimum is 1 and, the solver having
\* solved an attempt, the router returns exactly one non-empty route, which
\* visits exactly one non-depot stop.
C11_SingleRiderOneRoute ==
    /\ pc \in {"search", "break", "returned", "aborted", "done"}
          => theoretical_min_buses = 1
    /\ (pc = "returned" /\ AnyAttemptSolved)
          => /\ Len(routes) = 1
             /\ RouteLoad(demands, depot_index, routes[1]) = 1
             /\ Cardinality(NonDepotVisits(routes[1])) = 1

C11_Witness ==
    /\ pc = "returned"
    /\ demands = <<0, 1>>
    /\ bus_capacity = 40
    /\ num_bus = 60
    /\ min_buses = 30
    /\ Len(attempts) > 1
    /\ attempts[Len(attempts)].solved
    /\ routes = <<<<0, 1, 0>>>>

\* the riders that share the cluster of rider s, and the sum of their coordinates
ClusterMates(s) == {t \in 1..Len(new_df) : new_df[t] = new_df[s]}

CoordSum(s) == SumSeq([t \in 1..Len(coords) |->
                          IF new_df[t] = new_df[s] THEN coords[t] ELSE 0])

\* rider s is within max_distance_km of the mean of its cluster
WithinMaxOfCentroid(s) ==
    LET n == Cardinality(ClusterMates(s))
        d == n * coords[s] - CoordSum(s)
    IN /\ d <= n * max_distance_km
       /\ -d <= n * max_distance_km

AllWithinMax == \A s \in 1..Len(new_df) : WithinMaxOfCentroid(s)

\* C12: when enforce_max_distance returns, every rider is within the maximum
\* distance of the centroid (the mean of the members) of its cluster, and the
\* centroid create_stop_df then computes for that cluster is that same mean.
C12_ReturnedClustersWithinMax ==
    /\ pc \in {"enforced", "stop_centers"} => AllWithinMax
    /\ pc = "stop_centers" =>
          \A s \in 1..Len(new_df) :
              LET rows == {k \in 1..Len(stop_centers) :
                              stop_centers[k].stop_id = new_df[s]}
              IN /\ Cardinality(rows) = 1
                 /\ \A k \in rows :
                       /\ stop_centers[k].center.n = Cardinality(ClusterMates(s))
                       /\ stop_centers[k].center.sum = CoordSum(s)

C12_Witness ==
    /\ pc = "stop_centers"
    /\ Len(stop_centers) >= 2
    /\ \E s \in 1..Len(new_df) : new_df[s] >= MaxInitialClusters
    /\ \E s \in 1..Len(new_df) :
          /\ Cardinality(ClusterMates(s)) = 2
          /\ Abs(2 * coords[s] - CoordSum(s)) = 2 * max_distance_km

\* C13: every pass of the repair loop either returns, no cluster violating the
\* bound, or goes on with every rider of a violating cluster in a strictly
\* smaller cluster: the loop never aborts and so terminates.
C13_RepairLoopTerminates ==
    [][pc = "enforce" =>
          \/ pc' = "enforced" /\ AllWithinMax'
          \/ /\ pc' = "enforce"
             /\ \A s \in 1..Len(new_df) :
                   ~WithinMaxOfCentroid(s) =>
                       Cardinality(ClusterMates(s)') < Cardinality(ClusterMates(s))]_vars

\* C14: on an assignment in which no cluster violates the bound a call of
\* enforce_max_distance splits nothing and returns the same assignment; what it
\* returns is such an assignment, so a call on its own output changes nothing.
C14_ValidAssignmentUnchanged ==
    [][/\ (pc = "enforce" /\ AllWithinMax) => (pc' = "enforced" /\ new_df' = new_df)
       /\ pc' = "enforced" => AllWithinMax']_vars

C14_Witness ==
    /\ pc = "enforced"
    /\ enforce_calls = 2
    /\ \E s \in 1..Len(new_df) : new_df[s] >= MaxInitialClusters
    /\ \E s \in 1..Len(new_df) :
          /\ Cardinality(ClusterMates(s)) = 2
          /\ Abs(2 * coords[s] - CoordSum(s)) = 2 * max_distance_km

\* C15: a student is a rider exactly when its distance to the school is strictly
\* greater than the safe-walk threshold (a student exactly at the threshold is a
\* walker), and riders and walkers partition the roster.
C15_RiderIffBeyondThreshold ==
    pc = "classified" =>
        /\ \A s \in 1..Len(df_roster) :
              /\ s \in Range(df_bus_index) <=> 27 * df_roster[s] > 160934 * safe_walk_miles
              /\ 27 * df_roster[s] = 160934 * safe_walk_miles => s \in Range(df_walkers)
        /\ Range(df_bus_index) \cap Range(df_walkers) = {}
        /\ Range(df_bus_index) \cup Range(df_walkers) = 1..Len(df_roster)
        /\ Len(df_bus_index) + Len(df_walkers) = Len(df_roster)

C15_Witness ==
    /\ pc = "classified"
    /\ df_bus_index # <<>>
    /\ \E s \in Range(df_walkers) : 27 * df_roster[s] = 160934 * safe_walk_miles
    /\ \E s \in Range(df_walkers) : 27 * df_roster[s] < 160934 * safe_walk_miles

\* C16: if no candidate fleet size yields a solver solution, the router returns
\* the empty route list with empty metrics (never a partial plan) and the
\* pipeline aborts with an error: no later stage of the pipeline runs.
C16_NoSolutionAbortsPipeline ==
    (pc \in {"returned", "aborted", "done"} /\ ~AnyAttemptSolved) =>
        /\ routes = <<>>
        /\ DOMAIN vrp_metrics = {}
        /\ best_routes = <<>>
        /\ bus_loads = <<>>
        /\ pc # "done"
        /\ pc = "returned" => (ENABLED PipelineAbort /\ ~ENABLED FilterRoutes)

C16_Witness ==
    /\ pc = "aborted"
    /\ Len(attempts) >= 2
    /\ ~AnyAttemptSolved
    /\ theoretical_min_buses <= num_bus

\* every edge of G has its reverse (of the same length)
Undirected(graph) == \A e \in graph.edges : <<e[2], e[1]>> \in graph.edges

\* C17: the matrix build_distance_matrix returns has a zero diagonal and, on an
\* undirected road graph, is symmetric.
C17_ZeroDiagonalSymmetric ==
    pc = "matrix" =>
        /\ \A i \in 1..Len(stop_nodes) : dist_matrix[i][i] = 0
        /\ Undirected(G) =>
              \A i, j \in 1..Len(stop_nodes) : dist_matrix[i][j] = dist_matrix[j][i]

C17_Witness ==
    /\ pc = "matrix"
    /\ Undirected(G)
    /\ G.edges # {}
    /\ dist_matrix[1][2] > 0
    /\ dist_matrix[1][2] = dist_matrix[2][1]
    /\ <<stop_nodes[1], stop_nodes[2]>> \notin G.edges

\* C18: two concurrent runs share no mutable state: no artefact one run wrote
\* (elbow plot, timestamp-named map, timestamp-named folder and its route_N.html
\* files) is overwritten by the other run.
C18_NoArtefactOverwritten ==
    [][\A f \in files : \A g \in files' :
          g.path = f.path => g.writer = f.writer]_vars

PublishedRuns == {x \in optimization_runs : x.is_published}

\* C19: after any sequence of save_run, publish_run and delete_run requests at
\* most one run has is_published = true, and after a successful publish_run(r)
\* the published run is exactly r.
C19_AtMostOnePublished ==
    /\ Cardinality(PublishedRuns) <= 1
    /\ (response.op = "publish_run" /\ response.status = "success")
          => {x.run_id : x \in PublishedRuns} = {response.run_id}

C19_Witness ==
    /\ response.op = "publish_run"
    /\ response.status = "success"
    /\ response.run_id = 2
    /\ Cardinality(optimization_runs) = 2
    /\ [run_id |-> 1, is_published |-> FALSE] \in optimization_runs

\* C20: a delete_run request for the published run is rejected with an error and
\* leaves runs, routes, stops and assignments unchanged; hence a step of save_run,
\* of a successful publish_run or of delete_run taken with some run published
\* leaves some run published.
C20_PublishedRunNeverDeleted ==
    [][/\ (/\ response'.op = "delete_run"
           /\ \E x \in PublishedRuns : x.run_id = response'.run_id)
          => /\ response'.status = "400"
             /\ UNCHANGED <<optimization_runs, routes_table, stops_table,
                            student_assignments>>
       /\ (/\ PublishedRuns # {}
           /\ ~(response'.op = "publish_run" /\ response'.status # "success"))
          => PublishedRuns' # {}]_vars

C20_Witness ==
    /\ response.op = "delete_run"
    /\ response.status = "400"
    /\ \E x \in PublishedRuns : x.run_id = response.run_id
    /\ Cardinality(optimization_runs) = 2
    /\ routes_table # {}
    /\ student_assignments # {}

SolvedAttempts == {k \in 1..Len(attempts) : attempts[k].solved}

\* C21: when solve_vrp_with_fleet_limit returns a plan, the number of vehicles it
\* uses is the minimum of the used-vehicle counts over all solver attempts that
\* produced a solution during the search.
C21_FewestVehiclesWins ==
    PlanReturned =>
        /\ SolvedAttempts # {}
        /\ \A k \in SolvedAttempts : vrp_metrics.buses_used <= attempts[k].buses_used
        /\ \E k \in SolvedAttempts : vrp_metrics.buses_used = attempts[k].buses_used
        /\ Len(routes) = vrp_metrics.buses_used

C21_Witness ==
    /\ PlanReturned
    /\ Cardinality(SolvedAttempts) = 2
    /\ \E j, k \in SolvedAttempts :
          /\ j < k
          /\ attempts[j].buses_used = 4
          /\ attempts[k].buses_used = 3
    /\ vrp_metrics.buses_used = 3

\* C22: candidate fleet sizes are attempted in strictly increasing order, and no
\* further solver attempt is made after an attempt whose used-vehicle count is at
\* most theoretical minimum + 2.
C22_IncreasingUntilNearOptimal ==
    \A k \in 1..Len(attempts) :
        k < Len(attempts) =>
            /\ attempts[k].num_vehicles < attempts[k + 1].num_vehicles
            /\ ~(/\ attempts[k].solved
                 /\ attempts[k].buses_used <= theoretical_min_buses + 2)

C22_Witness ==
    /\ pc = "break"
    /\ Len(attempts) = 4
    /\ ~attempts[1].solved
    /\ attempts[3].solved
    /\ attempts[3].buses_used = theoretical_min_buses + 3
    /\ attempts[4].buses_used = theoretical_min_buses + 2

\* C23: every route solve_vrp_with_fleet_limit returns has strictly positive load,
\* and the reported buses_used equals the number of returned routes.
C23_RoutesServeStudents ==
    PlanReturned =>
        /\ \A k \in 1..Len(routes) : RouteLoad(demands, depot_index, routes[k]) > 0
        /\ vrp_metrics.buses_used = Len(routes)

C23_Witness ==
    /\ PlanReturned
    /\ Len(routes) = 2
    /\ attempts[Len(attempts)].num_vehicles = 3
    /\ vrp_metrics.buses_used = 2

\* rider s stands in a cluster one of whose riders is beyond the bound
InViolatingCluster(s) == \E t \in ClusterMates(s) : ~WithinMaxOfCentroid(t)

\* C24: in every pass of enforce_max_distance each sub-cluster created by a split
\* gets an identifier that was not in use before the pass and that no sub-cluster
\* of another cluster split in the same pass gets: students of two different
\* clusters are never merged under one identifier.
C24_FreshSubclusterIds ==
    [][(pc = "enforce" /\ pc' = "enforce") =>
          \A s, t \in 1..Len(new_df) :
              /\ new_df'[s] # new_df[s] => new_df'[s] \notin Range(new_df)
              /\ new_df'[s] = new_df'[t] => new_df[s] = new_df[t]]_vars

C24_Witness ==
    /\ pc = "enforce"
    /\ enforce_calls = 1
    /\ Range(new_df) = {3, 4, 5, 6}
    /\ {new_df[1], new_df[2]} = {3, 4}
    /\ {new_df[3], new_df[4]} = {5, 6}

\* C25: a pass of the repair loop changes the cluster of a student only if the
\* student's cluster violates the distance bound in that pass; every student of a
\* non-violating cluster keeps its cluster identifier.
C25_OnlyViolatingClustersChange ==
    [][pc = "enforce" =>
          \A s \in 1..Len(new_df) :
              ~InViolatingCluster(s) => new_df'[s] = new_df[s]]_vars

C25_Witness ==
    /\ pc = "enforce"
    /\ enforce_calls = 1
    /\ new_df[1] = new_df[2]
    /\ new_df[1] < MaxInitialClusters
    /\ coords[1] < coords[2]
    /\ new_df[3] >= MaxInitialClusters
    /\ new_df[4] >= MaxInitialClusters

SchoolRows == {k \in 1..Len(stop_df) : stop_df[k].stop_id = SchoolStopId}

\* C26: create_stop_df puts the depot at position 0 of the stop list and it is
\* still the only depot, at position 0, after split_large_stops; the depot index
\* passed to the router is that position, and the depot's demand is 0.
C26_DepotFirst ==
    /\ pc \notin {"clustered"} =>
          /\ SchoolRows = {1}
          /\ stop_df[1].num_students = 0
    /\ pc \notin {"clustered", "stops", "split"} =>
          /\ depot_index = 0
          /\ stop_df[depot_index + 1].stop_id = SchoolStopId
          /\ Len(demands) = Len(stop_df)
          /\ demands[depot_index + 1] = 0

C26_Witness ==
    /\ pc = "search"
    /\ depot_index = 0
    /\ \E k \in 1..Len(stop_df) : stop_df[k].stop_id.part = 2
    /\ \E k \in 1..Len(stop_df) : ~stop_df[k].stop_id.school /\ stop_df[k].stop_id.part = 0

\* the stops a route visits, in order, the depot left out
VisitedStops(route) == SelectSeq(route, LAMBDA i : i # depot_index)

\* C27: generate_route_details lists, for every route, exactly the route's
\* non-depot stops in visiting order with sequence numbers 1, 2, ..., n, and
\* numbers the route by its position in the route list plus one.
C27_DetailsFollowRoutes ==
    pc = "details" =>
        /\ Len(route_details_out) = Len(routes)
        /\ \A k \in 1..Len(routes) :
              LET visited == VisitedStops(routes[k])
                  detail == route_details_out[k]
              IN /\ detail.bus_number = (k - 1) + 1
                 /\ Len(detail.stops) = Len(visited)
                 /\ \A n \in 1..Len(visited) :
                       /\ detail.stops[n].sequence_number = n
                       /\ detail.stops[n].location =
                              stop_df[visited[n] + 1].original_stop_id

C27_Witness ==
    /\ pc = "details"
    /\ Len(route_details_out) = 2
    /\ Len(route_details_out[2].stops) = 2
    /\ route_details_out[2].stops[1].location # route_details_out[2].stops[2].location

\* C29: total_students of every route detail equals the route's load, so it
\* never exceeds the capacity and the totals sum to the number of riders.
C29_TotalStudentsIsLoad ==
    pc = "details" =>
        /\ \A k \in 1..Len(route_details_out) :
              /\ route_details_out[k].total_students =
                     RouteLoad(demands, depot_index, routes[k])
              /\ route_details_out[k].total_students <= bus_capacity
        /\ SumSeq([k \in 1..Len(route_details_out) |->
                      route_details_out[k].total_students]) = Len(df_bus)

\* the integers nearest to a length given in quarter metres
NearestIntegers(quarter_metres) ==
    LET below == quarter_metres \div 4
        near == {below, below + 1}
    IN {n \in near : \A m \in near :
           Abs(4 * n - quarter_metres) <= Abs(4 * m - quarter_metres)}

\* C28: every entry of the matrix build_distance_matrix returns is the
\* shortest-path distance rounded to the nearest integer, and the arc cost the
\* router uses for a pair of stops equals that entry.
C28_RoundedEntriesAreArcCosts ==
    pc = "matrix" =>
        \A i, j \in 1..Len(stop_nodes) :
            /\ ~Unreachable(G, stop_nodes[i], stop_nodes[j]) =>
                  dist_matrix[i][j] \in
                      NearestIntegers(DijkstraPathLength(G, stop_nodes[i])[stop_nodes[j]])
            /\ DistanceCallback(dist_matrix, i - 1, j - 1) = dist_matrix[i][j]

\* C30: save_run is all-or-nothing: a request that fails while saving routes,
\* stops or student assignments leaves the stored tables as they were before,
\* and in particular no optimization run without its routes.
C30_SaveRunAllOrNothing ==
    [][(/\ response'.op = "save_run"
        /\ response'.status = "error"
        /\ next_id'.run # next_id.run)
          => /\ optimization_runs' = optimization_runs
             /\ routes_table' = routes_table
             /\ stops_table' = stops_table
             /\ student_assignments' = student_assignments]_vars

====
